---- MODULE Spec2Model ----
(***************************************************************************)
(* init_agent.py: generation of one agent definition file from one of     *)
(* seven fixed templates.                                                  *)
(*                                                                         *)
(* Text is modelled as a sequence of strings (pieces of text that are      *)
(* concatenated in order).  A name is a sequence of one-character strings, *)
(* a path is a sequence of components, and a component is again a sequence *)
(* of one-character strings, so that  path / f"{name}.md"  is a real       *)
(* concatenation.                                                          *)
(***************************************************************************)
EXTENDS Integers, Sequences, FiniteSets, TLC

VARIABLES
  dirs,       \* the directories that exist (set of paths)
  files,      \* the regular files that exist: path -> content
  pc,         \* per process: position in main / create_agent
  args,       \* per process: the arguments of the running invocation
  outcome,    \* per process: how the invocation ended
  exitCode,   \* per process: the process exit status
  ret,        \* per process: the path create_agent returned
  stdout,     \* per process: lines printed to standard output
  stderr,     \* per process: lines printed to the error stream
  pre,        \* per process: the filesystem when the invocation started
  made,       \* per process: directories the invocation's mkdir created
  calls,      \* number of invocations started so far
  candidate,  \* validate_name: the string under test
  checked,    \* validate_name: has the verdict been computed
  accepted    \* validate_name: the verdict

vars ==
  <<dirs, files, pc, args, outcome, exitCode, ret, stdout, stderr, pre, made,
    calls, candidate, checked, accepted>>

----------------------------------------------------------------------------
(* Bounds *)

\* longest string given to validate_name
MaxLen == 3

\* number of invocations in a sequential run
MaxCalls == 2

----------------------------------------------------------------------------
(* TEMPLATES, the registry (a dictionary literal) *)

\* researcher: src init_agent.py line 28
Prompt_researcher ==
  "You are a research specialist focused on finding and analyzing information.\n\n## Capabilities\n\n- Search and retrieve information from files and web\n- Analyze documentation and code\n- Identify patterns and relationships\n- Synthesize findings into clear summaries\n\n## Guidelines\n\n- Explore thoroughly before drawing conclusions\n- Cite sources and file locations for findings\n- Acknowledge uncertainty when present\n- Present multiple perspectives when relevant\n\n## Output Format\n\nProvide findings with:\n1. Summary of key discoveries\n2. Supporting evidence with file paths or URLs\n3. Confidence level for conclusions\n4. Suggestions for further investigation if needed"

\* reviewer: src init_agent.py line 56
Prompt_reviewer ==
  "You are a senior software engineer specializing in code review.\n\n## Review Focus Areas\n\n1. **Security** - Vulnerabilities, injection risks, auth issues\n2. **Performance** - Inefficiencies, N+1 queries, memory leaks\n3. **Maintainability** - Complexity, duplication, unclear logic\n4. **Correctness** - Edge cases, error handling, type safety\n\n## Review Process\n\n1. Understand the code's purpose and context\n2. Read all relevant files before commenting\n3. Check for security vulnerabilities first\n4. Analyze performance implications\n5. Evaluate maintainability and readability\n\n## Output Format\n\nFor each issue found:\n- **Severity**: Critical / Warning / Suggestion\n- **Location**: file:line\n- **Issue**: Clear description\n- **Recommendation**: Specific fix\n\n## Guidelines\n\n- Do not make changes, only analyze and report\n- Be specific with line numbers and code references\n- Explain *why* something is an issue, not just *what*\n- Prioritize security and correctness over style"

\* specialist: src init_agent.py line 92
Prompt_specialist ==
  "You are a specialist in [DOMAIN].\n\n## Expertise\n\n- [List your areas of expertise]\n- [Add specific technologies/frameworks]\n- [Include relevant patterns/practices]\n\n## Guidelines\n\n- Follow established patterns in the codebase\n- Write clean, maintainable code\n- Keep solutions simple and focused\n- Test changes appropriately\n\nAvoid over-engineering. Only make changes directly requested or clearly necessary."

\* builder: src init_agent.py line 113
Prompt_builder ==
  "You are an implementation specialist focused on writing quality code.\n\n## Approach\n\n1. Understand requirements completely before coding\n2. Read existing code to understand patterns\n3. Implement minimal, focused changes\n4. Test changes work correctly\n5. Clean up after yourself\n\n## Guidelines\n\nAvoid over-engineering. Only make changes directly requested or clearly necessary.\nKeep solutions simple and focused.\n\nDo not:\n- Add features beyond what was asked\n- Refactor surrounding code during bug fixes\n- Create abstractions for one-time operations\n- Add error handling for impossible scenarios\n\n## Code Standards\n\n- Follow existing patterns in the codebase\n- Write clear, self-documenting code\n- Handle errors at system boundaries\n- Use TypeScript types appropriately"

\* quick: src init_agent.py line 145
Prompt_quick ==
  "You are a fast, efficient assistant for quick tasks.\n\n## Focus\n\n- Concise answers\n- Direct solutions\n- Fast turnaround\n- No over-explanation\n\nKeep responses brief. Get to the point immediately."

\* orchestrator: src init_agent.py line 160
Prompt_orchestrator ==
  "You are a technical coordinator who accomplishes complex tasks by delegating to specialized sub-agents.\n\n## Coordination Strategy\n\n1. Break complex tasks into discrete sub-tasks\n2. Identify which sub-agent is best for each\n3. Spawn sub-agents in parallel when independent\n4. Synthesize results into cohesive outcome\n5. Track progress with TodoWrite\n\n## Guidelines\n\n- Plan before executing\n- Delegate rather than implement directly\n- Run independent sub-agents in parallel\n- Verify sub-agent results before proceeding\n- Maintain overall coherence across sub-tasks"

\* planner: src init_agent.py line 182
Prompt_planner ==
  "You are a software architect focused on design and planning.\n\n## Responsibilities\n\n- Analyze requirements and constraints\n- Design system architecture\n- Create implementation roadmaps\n- Identify risks and trade-offs\n- Document technical decisions\n\n## Process\n\n1. Understand current state and requirements\n2. Research relevant patterns and solutions\n3. Design architecture with clear boundaries\n4. Create step-by-step implementation plan\n5. Document decisions and trade-offs\n\n## Output Format\n\nPlans should include:\n1. **Overview** - What and why\n2. **Architecture** - Components and relationships\n3. **Implementation Steps** - Ordered, actionable tasks\n4. **Risks** - Potential issues and mitigations\n5. **Trade-offs** - Decisions made and alternatives considered\n\n## Guidelines\n\n- Do not implement, only plan\n- Consider maintainability and scalability\n- Identify dependencies between steps"

TEMPLATES ==
     ("researcher" :> [tools |-> <<"Read", "Grep", "Glob", "WebSearch", "WebFetch">>, model |-> "sonnet", prompt |-> Prompt_researcher])
  @@ ("reviewer" :> [tools |-> <<"Read", "Grep", "Glob", "Bash">>, model |-> "sonnet", prompt |-> Prompt_reviewer])
  @@ ("specialist" :> [tools |-> <<"Read", "Write", "Edit", "Grep", "Glob", "Bash">>, model |-> "sonnet", prompt |-> Prompt_specialist])
  @@ ("builder" :> [tools |-> <<"Read", "Write", "Edit", "Grep", "Glob", "Bash", "TodoWrite">>, model |-> "sonnet", prompt |-> Prompt_builder])
  @@ ("quick" :> [tools |-> <<"Read", "Grep", "Glob">>, model |-> "haiku", prompt |-> Prompt_quick])
  @@ ("orchestrator" :> [tools |-> <<"Read", "Grep", "Glob", "Task", "TodoWrite">>, model |-> "opus", prompt |-> Prompt_orchestrator])
  @@ ("planner" :> [tools |-> <<"Read", "Grep", "Glob", "WebSearch">>, model |-> "opus", prompt |-> Prompt_planner])

\* TEMPLATES.keys(), in the dictionary's insertion order
PatternOrder ==
  <<"researcher", "reviewer", "specialist", "builder", "quick",
    "orchestrator", "planner">>

----------------------------------------------------------------------------
(* validate_name:  re.match(r'^[a-z][a-z0-9-]*$', name) *)

\* [a-z], over the alphabet of the model
Lower == {"a", "b", "z"}

\* [a-z0-9-]
LowerDigitHyphen == Lower \cup {"0", "9", "-"}

\* the alphabet the candidate strings are drawn from
Alphabet == {"a", "z", "0", "-", "A", "_", " ", "\n"}

\* '$' without re.MULTILINE: matches at the end of the string and also just
\* before a newline that is the last character of the string.  i is the
\* index of the next unread character.
DollarMatchesAt(s, i) ==
  \/ i = Len(s) + 1
  \/ i = Len(s) /\ s[i] = "\n"

\* [a-z0-9-]* followed by $, from index i: the star consumes k - i + 1
\* characters of the class, for some k, and $ must match after them.
RECURSIVE StarThenDollar(_, _)
StarThenDollar(s, i) ==
  \/ DollarMatchesAt(s, i)
  \/ /\ i <= Len(s)
     /\ s[i] \in LowerDigitHyphen
     /\ StarThenDollar(s, i + 1)

validate_name(name) ==
  /\ Len(name) >= 1
  /\ name[1] \in Lower
  /\ StarThenDollar(name, 2)

----------------------------------------------------------------------------
(* Text helpers *)

\* sep.join(items), as a sequence of pieces
RECURSIVE Join(_, _)
Join(items, sep) ==
  IF Len(items) = 0 THEN <<>>
  ELSE IF Len(items) = 1 THEN <<items[1]>>
  ELSE <<items[1], sep>> \o Join(Tail(items), sep)

\* concatenation of a sequence of sequences
RECURSIVE Flatten(_)
Flatten(ss) ==
  IF Len(ss) = 0 THEN <<>> ELSE Head(ss) \o Flatten(Tail(ss))

\* f"  - {tool}" for tool in template["tools"], each a sequence of pieces
ToolLines(tools) ==
  [i \in 1..Len(tools) |-> <<"  - ", tools[i]>>]

\* tools_yaml = "\n".join(f"  - {tool}" for tool in template["tools"])
ToolsYaml(tools) ==
  Flatten(Join(ToolLines(tools), <<"\n">>))

\* the fixed description line of the frontmatter
DescriptionLine == "description: \"TODO: Describe when to use this agent\""

\* variant of Content: the blank line after the closing delimiter is missing
ContentNoBlankLine(name, template) ==
  <<"---", "\n", "name: ">> \o name \o <<"\n", DescriptionLine, "\n", "tools:", "\n">>
    \o ToolsYaml(template.tools)
    \o <<"\n", "model: ", template.model, "\n", "---", "\n",
         template.prompt, "\n">>

\* content = f'''---\nname: {name}\n...{template["prompt"]}\n'''
Content(name, template) ==
  <<"---", "\n", "name: ">> \o name \o <<"\n", DescriptionLine, "\n", "tools:", "\n">>
    \o ToolsYaml(template.tools)
    \o <<"\n", "model: ", template.model, "\n", "---", "\n", "\n",
         template.prompt, "\n">>

----------------------------------------------------------------------------
(* Paths *)

\* f"{name}.md"
FileName(name) == name \o <<".", "m", "d">>

\* path / f"{name}.md"
AgentFile(path, name) == Append(path, FileName(name))

\* the path itself and all its ancestors up to the root
Prefixes(path) == {SubSeq(path, 1, k) : k \in 0..Len(path)}

\* str(path): the components joined by "/"
PathStr(path) == Flatten(Join(path, <<"/">>))

\* Path.exists(): true of a directory as well as of a regular file
Exists(fsDirs, fsFiles, path) == path \in fsDirs \/ path \in DOMAIN fsFiles

\* Path.mkdir(parents=True, exist_ok=True) raises (FileExistsError or
\* NotADirectoryError) exactly when the path or one of its ancestors is a
\* regular file
MkdirRaises(fsFiles, path) == \E q \in Prefixes(path) : q \in DOMAIN fsFiles

\* open(..., 'w') followed by one write at offset 0 of a file that was
\* truncated by the open: the data replaces what is there from the start;
\* anything another writer put beyond the end of the data stays
Overlay(old, data) ==
  IF Len(old) > Len(data) THEN data \o SubSeq(old, Len(data) + 1, Len(old)) ELSE data

----------------------------------------------------------------------------
(* Inputs *)

\* two invocations can run at the same time (two operating-system processes)
Procs == {1, 2}

\* path components
Tmp == <<"t", "m", "p">>
Agents == <<"a", "g", "e", "n", "t", "s">>

\* names given on the command line: valid, ending in a newline, invalid
NameInputs == {<<"a">>, <<"a", "\n">>, <<"A", "_">>}

\* target directories: one level, two levels, and one whose last component
\* is spelled like the agent file of name "a"
PathInputs == {<<Tmp>>, <<Tmp, Agents>>, <<Tmp, FileName(<<"a">>)>>}

\* pattern arguments: the seven keys, an unknown one, a key in another case
PatternInputs == DOMAIN TEMPLATES \cup {"bogus", "Quick"}

\* an invocation enters through main() (the command line) or calls
\* create_agent directly
EntryInputs == {"main", "create_agent"}

\* content of a file that was there before any invocation
ForeignContent == <<"# written by hand", "\n">>

NoArgs == [entry |-> "none", name |-> <<>>, path |-> <<>>, pattern |-> ""]

----------------------------------------------------------------------------
(* Initial states *)

\* the filesystem before the first invocation: empty, or holding the
\* directory tmp with a file tmp/a.md
InitFs ==
  \/ dirs = {<<>>} /\ files = <<>>
  \/ /\ dirs = {<<>>, <<Tmp>>}
     /\ files = (AgentFile(<<Tmp>>, <<"a">>) :> ForeignContent)

InitProcs ==
  /\ pc = [p \in Procs |-> "idle"]
  /\ args = [p \in Procs |-> NoArgs]
  /\ outcome = [p \in Procs |-> "none"]
  /\ exitCode = [p \in Procs |-> 0]
  /\ ret = [p \in Procs |-> <<>>]
  /\ stdout = [p \in Procs |-> <<>>]
  /\ stderr = [p \in Procs |-> <<>>]
  /\ pre = [p \in Procs |-> [dirs |-> {}, files |-> <<>>]]
  /\ made = [p \in Procs |-> {}]
  /\ calls = 0

InitNoCandidate ==
  /\ candidate = <<>>
  /\ checked = FALSE
  /\ accepted = FALSE

Init == InitFs /\ InitProcs /\ InitNoCandidate

----------------------------------------------------------------------------
(* One invocation, step by step *)

validateVars == <<candidate, checked, accepted>>

\* sys.exit(code) after the lines printed so far; also the end of a process
\* killed by an uncaught exception (code 1, traceback on the error stream)
Exit(p, how, code, out, err) ==
  /\ pc' = [pc EXCEPT ![p] = "done"]
  /\ outcome' = [outcome EXCEPT ![p] = how]
  /\ exitCode' = [exitCode EXCEPT ![p] = code]
  /\ stdout' = [stdout EXCEPT ![p] = stdout[p] \o out]
  /\ stderr' = [stderr EXCEPT ![p] = stderr[p] \o err]

\* an uncaught exception: the interpreter prints the traceback to the error
\* stream and the process ends with status 1
Raise(p, exception) ==
  Exit(p, exception, 1, <<>>,
       <<<<"Traceback (most recent call last):">>, <<exception>>>>)

Goto(p, label) ==
  /\ pc' = [pc EXCEPT ![p] = label]
  /\ UNCHANGED <<outcome, exitCode, stdout, stderr>>

\* the start of an invocation with the given arguments
Begin(p, entry, name, path, pattern) ==
  /\ args' = [args EXCEPT ![p] =
                [entry |-> entry, name |-> name, path |-> path, pattern |-> pattern]]
  /\ pc' = [pc EXCEPT ![p] = IF entry = "main" THEN "parse" ELSE "validate"]
  /\ outcome' = [outcome EXCEPT ![p] = "running"]
  /\ exitCode' = [exitCode EXCEPT ![p] = 0]
  /\ ret' = [ret EXCEPT ![p] = <<>>]
  /\ stdout' = [stdout EXCEPT ![p] = <<>>]
  /\ stderr' = [stderr EXCEPT ![p] = <<>>]
  /\ pre' = [pre EXCEPT ![p] = [dirs |-> dirs, files |-> files]]
  /\ made' = [made EXCEPT ![p] = {}]
  /\ calls' = calls + 1
  /\ UNCHANGED <<dirs, files, validateVars>>

\* a new invocation, once the previous one of this process has ended
Call(p, entry, name, path, pattern) ==
  /\ pc[p] \in {"idle", "done"}
  /\ calls < MaxCalls
  /\ Begin(p, entry, name, path, pattern)

\* parser.parse_args(): --pattern has choices=list(TEMPLATES.keys()); any
\* other value is an argparse error (usage on the error stream, status 2)
ParseArgs(p) ==
  /\ pc[p] = "parse"
  /\ IF args[p].pattern \in DOMAIN TEMPLATES
       THEN Goto(p, "validate")
       ELSE Exit(p, "UsageError", 2, <<>>,
                 <<<<"usage: init_agent.py [-h] [--path PATH] [--pattern ">>
                     \o Join(PatternOrder, ",") \o <<"] name">>,
                   <<"init_agent.py: error: argument --pattern: invalid choice: ",
                     args[p].pattern>>>>)
  /\ UNCHANGED <<dirs, files, args, ret, pre, made, calls, validateVars>>

\* variant of ValidateName: an invalid name is not a reason to stop
ValidateNameWarnOnly(p) ==
  /\ pc[p] = "validate"
  /\ Goto(p, "lookup")
  /\ UNCHANGED <<dirs, files, args, ret, pre, made, calls, validateVars>>

\* variant of ValidateName: the pattern is looked up before the name is
\* validated
ValidateNamePatternFirst(p) ==
  /\ pc[p] = "validate"
  /\ IF args[p].pattern \notin DOMAIN TEMPLATES
       THEN Exit(p, "UnknownPattern", 1,
                 <<<<"Error: Unknown pattern '", args[p].pattern, "'">>,
                   <<"Available patterns: ">> \o Join(PatternOrder, ", ")>>,
                 <<>>)
       ELSE IF validate_name(args[p].name)
         THEN Goto(p, "lookup")
         ELSE Exit(p, "InvalidName", 1,
                   <<<<"Error: Agent name must be lowercase with hyphens only (got: ">>
                       \o args[p].name \o <<")">>>>,
                   <<>>)
  /\ UNCHANGED <<dirs, files, args, ret, pre, made, calls, validateVars>>

\* if not validate_name(name): print(...); sys.exit(1)
ValidateName(p) ==
  /\ pc[p] = "validate"
  /\ IF validate_name(args[p].name)
       THEN Goto(p, "lookup")
       ELSE Exit(p, "InvalidName", 1,
                 <<<<"Error: Agent name must be lowercase with hyphens only (got: ">>
                     \o args[p].name \o <<")">>>>,
                 <<>>)
  /\ UNCHANGED <<dirs, files, args, ret, pre, made, calls, validateVars>>

\* variant of LookupPattern: the membership test ignores case, so "Quick"
\* passes it and  template = TEMPLATES[pattern]  raises KeyError
LookupPatternIgnoreCase(p) ==
  /\ pc[p] = "lookup"
  /\ IF args[p].pattern \in DOMAIN TEMPLATES
       THEN Goto(p, "mkdir")
       ELSE IF args[p].pattern = "Quick"
         THEN Raise(p, "KeyError")
         ELSE Exit(p, "UnknownPattern", 1,
                   <<<<"Error: Unknown pattern '", args[p].pattern, "'">>,
                     <<"Available patterns: ">> \o Join(PatternOrder, ", ")>>,
                   <<>>)
  /\ UNCHANGED <<dirs, files, args, ret, pre, made, calls, validateVars>>

\* if pattern not in TEMPLATES: print(...); print(...); sys.exit(1)
LookupPattern(p) ==
  /\ pc[p] = "lookup"
  /\ IF args[p].pattern \in DOMAIN TEMPLATES
       THEN Goto(p, "mkdir")
       ELSE Exit(p, "UnknownPattern", 1,
                 <<<<"Error: Unknown pattern '", args[p].pattern, "'">>,
                   <<"Available patterns: ">> \o Join(PatternOrder, ", ")>>,
                 <<>>)
  /\ UNCHANGED <<dirs, files, args, ret, pre, made, calls, validateVars>>

\* variant of Mkdir: mkdir() without parents=True raises FileNotFoundError
\* when the parent directory is missing
MkdirNoParents(p) ==
  /\ pc[p] = "mkdir"
  /\ IF MkdirRaises(files, args[p].path)
       THEN /\ Raise(p, "FileExistsError")
            /\ UNCHANGED <<dirs, made>>
       ELSE IF Len(args[p].path) > 0
               /\ SubSeq(args[p].path, 1, Len(args[p].path) - 1) \notin dirs
         THEN /\ Raise(p, "FileNotFoundError")
              /\ UNCHANGED <<dirs, made>>
         ELSE /\ Goto(p, "exists")
              /\ dirs' = dirs \cup {args[p].path}
              /\ made' = [made EXCEPT ![p] = {args[p].path} \ dirs]
  /\ UNCHANGED <<files, args, ret, pre, calls, validateVars>>

\* path.mkdir(parents=True, exist_ok=True)
Mkdir(p) ==
  /\ pc[p] = "mkdir"
  /\ IF MkdirRaises(files, args[p].path)
       THEN /\ Raise(p, "FileExistsError")
            /\ UNCHANGED <<dirs, made>>
       ELSE /\ Goto(p, "exists")
            /\ dirs' = dirs \cup Prefixes(args[p].path)
            /\ made' = [made EXCEPT ![p] = Prefixes(args[p].path) \ dirs]
  /\ UNCHANGED <<files, args, ret, pre, calls, validateVars>>

\* variant of ExistsCheck: the file is written whether or not it exists
ExistsCheckSkipped(p) ==
  /\ pc[p] = "exists"
  /\ Goto(p, "open")
  /\ UNCHANGED <<dirs, files, args, ret, pre, made, calls, validateVars>>

\* if agent_file.exists(): print(...); sys.exit(1)
ExistsCheck(p) ==
  /\ pc[p] = "exists"
  /\ IF Exists(dirs, files, AgentFile(args[p].path, args[p].name))
       THEN Exit(p, "AlreadyExists", 1,
                 <<<<"Error: Agent file already exists: ">>
                     \o PathStr(AgentFile(args[p].path, args[p].name))>>,
                 <<>>)
       ELSE Goto(p, "open")
  /\ UNCHANGED <<dirs, files, args, ret, pre, made, calls, validateVars>>

\* agent_file.write_text(content), first half: open(agent_file, 'w') creates
\* the file or truncates it to length 0; opening a directory raises
OpenFile(p) ==
  /\ pc[p] = "open"
  /\ IF AgentFile(args[p].path, args[p].name) \in dirs
       THEN /\ Raise(p, "IsADirectoryError")
            /\ UNCHANGED files
       ELSE /\ Goto(p, "write")
            /\ files' = (AgentFile(args[p].path, args[p].name) :> <<>>) @@ files
  /\ UNCHANGED <<dirs, args, ret, pre, made, calls, validateVars>>

\* what create_agent hands back to its caller: main() goes on to print the
\* report, a direct caller has the path
Return(p, agent_file) ==
  /\ ret' = [ret EXCEPT ![p] = agent_file]
  /\ pc' = [pc EXCEPT ![p] = IF args[p].entry = "main" THEN "report" ELSE "done"]
  /\ outcome' = [outcome EXCEPT ![p] = IF args[p].entry = "main" THEN "running" ELSE "ok"]
  /\ UNCHANGED <<exitCode, stdout, stderr>>

\* agent_file.write_text(content), second half: the content is written and
\* the file closed; then  return agent_file
WriteData(p) ==
  /\ pc[p] = "write"
  /\ files' = [files EXCEPT ![AgentFile(args[p].path, args[p].name)] =
                 Overlay(@, Content(args[p].name, TEMPLATES[args[p].pattern]))]
  /\ Return(p, AgentFile(args[p].path, args[p].name))
  /\ UNCHANGED <<dirs, args, pre, made, calls, validateVars>>

\* main() after create_agent returned: the report on standard output
Report(p) ==
  /\ pc[p] = "report"
  /\ Exit(p, "ok", 0,
          << <<"Created agent: ">> \o PathStr(ret[p]),
             <<"Pattern: ", args[p].pattern>>,
             <<>>,
             <<"Next steps:">>,
             <<"  1. Edit ">> \o PathStr(ret[p]),
             <<"  2. Update the description to specify when to use this agent">>,
             <<"  3. Customize the system prompt for your use case">>,
             <<"  4. Adjust tools and model as needed">>,
             <<>>,
             <<"Test your agent:">>,
             <<"  claude --agent ">> \o args[p].name >>,
          <<>>)
  /\ UNCHANGED <<dirs, files, args, ret, pre, made, calls, validateVars>>

----------------------------------------------------------------------------
(* Sequential invocations: one process, one invocation after the other *)

Invoke(p) ==
  \E entry \in EntryInputs, name \in NameInputs, path \in PathInputs,
     pattern \in PatternInputs :
    Call(p, entry, name, path, pattern)

Next ==
  \/ Invoke(1)
  \/ ParseArgs(1)
  \/ ValidateName(1)
  \/ LookupPattern(1)
  \/ Mkdir(1)
  \/ ExistsCheck(1)
  \/ OpenFile(1)
  \/ WriteData(1)
  \/ Report(1)

Spec == Init /\ [][Next]_vars

----------------------------------------------------------------------------
(* Two invocations at the same time: two processes, one direct call of      *)
(* create_agent each, their steps interleaved in every order                *)

CallConc(p) ==
  \E name \in NameInputs, path \in PathInputs, pattern \in PatternInputs :
    /\ pc[p] = "idle"
    /\ Begin(p, "create_agent", name, path, pattern)

NextConc ==
  \/ \E p \in Procs : CallConc(p)
  \/ \E p \in Procs : ValidateName(p)
  \/ \E p \in Procs : LookupPattern(p)
  \/ \E p \in Procs : Mkdir(p)
  \/ \E p \in Procs : ExistsCheck(p)
  \/ \E p \in Procs : OpenFile(p)
  \/ \E p \in Procs : WriteData(p)

SpecConc == Init /\ [][NextConc]_vars

----------------------------------------------------------------------------
(* One invocation on a filesystem whose writes can fail *)

\* agent_file.write_text(content), second half, when the write fails (disk
\* full, quota, I/O error): k pieces of the content have reached the file,
\* OSError is raised and nothing in create_agent or main catches it
WriteFails(p) ==
  /\ pc[p] = "write"
  /\ \E k \in 0..(Len(Content(args[p].name, TEMPLATES[args[p].pattern])) - 1) :
       files' = [files EXCEPT ![AgentFile(args[p].path, args[p].name)] =
                   Overlay(@, SubSeq(Content(args[p].name, TEMPLATES[args[p].pattern]), 1, k))]
  /\ Raise(p, "OSError")
  /\ UNCHANGED <<dirs, args, ret, pre, made, calls, validateVars>>

\* one invocation, through either entry
CallOnce(p) ==
  \E entry \in EntryInputs, name \in NameInputs, path \in PathInputs,
     pattern \in PatternInputs :
    /\ pc[p] = "idle"
    /\ Begin(p, entry, name, path, pattern)

NextFail ==
  \/ CallOnce(1)
  \/ ParseArgs(1)
  \/ ValidateName(1)
  \/ LookupPattern(1)
  \/ Mkdir(1)
  \/ ExistsCheck(1)
  \/ OpenFile(1)
  \/ WriteData(1)
  \/ WriteFails(1)
  \/ Report(1)

SpecFail == Init /\ [][NextFail]_vars

----------------------------------------------------------------------------
(* validate_name on its own, applied to every string of up to MaxLen        *)
(* characters of the alphabet                                               *)

Strings == UNION {[1..n -> Alphabet] : n \in 0..MaxLen}

InitValidate ==
  /\ InitProcs
  /\ dirs = {<<>>}
  /\ files = <<>>
  /\ candidate \in Strings
  /\ checked = FALSE
  /\ accepted = FALSE

\* accepted = validate_name(candidate)
Validate ==
  /\ ~checked
  /\ checked' = TRUE
  /\ accepted' = validate_name(candidate)
  /\ UNCHANGED <<dirs, files, pc, args, outcome, exitCode, ret, stdout, stderr,
                 pre, made, calls, candidate>>

NextValidate == Validate

SpecValidate == InitValidate /\ [][NextValidate]_vars

----------------------------------------------------------------------------
(* Properties *)

\* the process has entered create_agent: it was called directly, or main()
\* got past parse_args
InCreateAgent(p) ==
  /\ pc[p] \notin {"idle", "parse"}
  /\ args[p].entry = "create_agent" \/ args[p].pattern \in DOMAIN TEMPLATES

\* the file the invocation of p is about
Target(p) == AgentFile(args[p].path, args[p].name)

\* C1: create_agent never overwrites. In a sequence of invocations, a call
\* whose target file exists when the call starts never reaches the write,
\* leaves every file as it was, ends with a non-zero exit and no returned
\* path, and (the name and the pattern being accepted) ends AlreadyExists.
C1_NeverOverwrites ==
  \A p \in Procs :
    (InCreateAgent(p) /\ Target(p) \in DOMAIN pre[p].files) =>
      /\ files = pre[p].files
      /\ pc[p] \notin {"open", "write", "report"}
      /\ pc[p] = "done" =>
           /\ exitCode[p] # 0
           /\ outcome[p] # "ok"
           /\ ret[p] = <<>>
           /\ (validate_name(args[p].name) /\ args[p].pattern \in DOMAIN TEMPLATES)
                => outcome[p] = "AlreadyExists"

\* C1 witness: the second of two calls with the same name and directory has
\* ended AlreadyExists on the file the first call wrote.
C1_Witness ==
  /\ calls = 2
  /\ pc[1] = "done"
  /\ outcome[1] = "AlreadyExists"
  /\ Target(1) \in DOMAIN files
  /\ files[Target(1)] = Content(args[1].name, TEMPLATES["builder"])
  /\ args[1].pattern = "quick"

\* C2: of two invocations running at the same time on the same target path,
\* valid names and patterns, file absent at the start, at most one succeeds.
C2_AtMostOneSucceeds ==
  \A p, q \in Procs :
    ( /\ p # q
      /\ pc[p] = "done" /\ pc[q] = "done"
      /\ Target(p) = Target(q)
      /\ Target(p) \notin DOMAIN pre[p].files
      /\ Target(q) \notin DOMAIN pre[q].files )
    => ~(outcome[p] = "ok" /\ outcome[q] = "ok")

\* ^[a-z][a-z0-9-]*$ read as a statement about the whole string
MatchesNamePattern(s) ==
  /\ Len(s) >= 1
  /\ s[1] \in Lower
  /\ \A j \in 2..Len(s) : s[j] \in LowerDigitHyphen

\* C3: validate_name(name) is true if and only if name is non-empty, starts
\* with a lowercase letter and continues with lowercase letters, digits and
\* hyphens only; every other string is rejected.
C3_ValidateNameIffPattern ==
  checked => (accepted <=> MatchesNamePattern(candidate))

\* the lines of the file C4 describes, for a name and a registry entry
C4_Lines(name, t) ==
  << <<"---">>,
     <<"name: ">> \o name,
     <<"description: \"TODO: Describe when to use this agent\"">>,
     <<"tools:">> >>
  \o [i \in 1..Len(t.tools) |-> <<"  - ", t.tools[i]>>]
  \o << <<"model: ", t.model>>,
        <<"---">>,
        <<>>,
        <<t.prompt>> >>

\* every line of C4_Lines ended by one newline
C4_Expected(name, t) ==
  Flatten([i \in 1..Len(C4_Lines(name, t)) |-> C4_Lines(name, t)[i] \o <<"\n">>])

\* C4: after a successful create_agent the file at the returned path holds
\* exactly the frontmatter lines, one tool line per registry tool in
\* registry order, the model line, the closing delimiter, one blank line,
\* the registry prompt and one trailing newline: a function of (name,
\* pattern) alone.
C4_ContentExact ==
  \A p \in Procs :
    (pc[p] \in {"report", "done"} /\ ret[p] # <<>>) =>
      /\ ret[p] \in DOMAIN files
      /\ files[ret[p]] = C4_Expected(args[p].name, TEMPLATES[args[p].pattern])

\* C4 witness: a second invocation has succeeded with the orchestrator
\* pattern in the two-level directory.
C4_Witness ==
  /\ calls = 2
  /\ pc[1] = "done"
  /\ outcome[1] = "ok"
  /\ args[1].pattern = "orchestrator"
  /\ args[1].path = <<Tmp, Agents>>
  /\ ret[1] \in DOMAIN files

\* C5: create_agent called with a name validate_name rejects ends with a
\* non-zero exit (InvalidName) and at no point of the call is a directory or
\* a file created, whatever the pattern and the directory.
C5_InvalidNameNoEffect ==
  \A p \in Procs :
    (InCreateAgent(p) /\ ~validate_name(args[p].name)) =>
      /\ pc[p] \in {"validate", "done"}
      /\ dirs = pre[p].dirs
      /\ files = pre[p].files
      /\ pc[p] = "done" =>
           /\ outcome[p] = "InvalidName"
           /\ exitCode[p] # 0
           /\ ret[p] = <<>>

\* C5 witness: a call with the name "A_", an unknown pattern and a directory
\* that does not exist has ended.
C5_Witness ==
  /\ pc[1] = "done"
  /\ args[1].entry = "create_agent"
  /\ args[1].name = <<"A", "_">>
  /\ args[1].pattern = "bogus"
  /\ args[1].path = <<Tmp, Agents>>
  /\ <<Tmp>> \notin dirs
  /\ outcome[1] = "InvalidName"

\* C6: create_agent called with a valid name and a pattern that is not one
\* of the seven registry keys (case-sensitively) ends with a non-zero exit
\* (UnknownPattern), prints a line that lists every valid pattern name, and
\* writes nothing: the target file is not created and no template is used.
C6_UnknownPatternNoFile ==
  \A p \in Procs :
    ( /\ InCreateAgent(p)
      /\ validate_name(args[p].name)
      /\ args[p].pattern \notin {"researcher", "reviewer", "specialist", "builder",
                                 "quick", "orchestrator", "planner"} )
    =>
      /\ pc[p] \in {"validate", "lookup", "done"}
      /\ files = pre[p].files
      /\ pc[p] = "done" =>
           /\ outcome[p] = "UnknownPattern"
           /\ exitCode[p] # 0
           /\ ret[p] = <<>>
           /\ \E i \in 1..Len(stdout[p] \o stderr[p]) :
                \A k \in DOMAIN TEMPLATES :
                  \E j \in 1..Len((stdout[p] \o stderr[p])[i]) :
                    (stdout[p] \o stderr[p])[i][j] = k

\* C6 witness: a call with name "a" and the pattern "Quick" has ended and
\* its target file is absent.
C6_Witness ==
  /\ pc[1] = "done"
  /\ args[1].name = <<"a">>
  /\ args[1].pattern = "Quick"
  /\ args[1].entry = "create_agent"
  /\ outcome[1] = "UnknownPattern"
  /\ Target(1) \notin DOMAIN files

\* C7: a failing invocation (InvalidName, UnknownPattern, AlreadyExists)
\* ends with a non-zero exit code and its diagnostic on the error stream,
\* not on standard output; only a successful invocation ends with exit code
\* 0 and prints to standard output.
C7_DiagnosticsOnErrorStream ==
  \A p \in Procs :
    pc[p] = "done" =>
      /\ outcome[p] \in {"InvalidName", "UnknownPattern", "AlreadyExists"} =>
           /\ exitCode[p] # 0
           /\ stderr[p] # <<>>
           /\ stdout[p] = <<>>
      /\ outcome[p] # "ok" => stdout[p] = <<>>

\* the content the invocation of p writes when it succeeds
Complete(p) == Content(args[p].name, TEMPLATES[args[p].pattern])

\* C8: once an invocation has ended, however it ended, its target file does
\* not exist, or is the file that was there before the call, or holds the
\* complete formatted content; an empty or truncated file is never left.
C8_NoPartialFile ==
  \A p \in Procs :
    (pc[p] = "done" /\ Target(p) \in DOMAIN files) =>
      \/ /\ Target(p) \in DOMAIN pre[p].files
         /\ files[Target(p)] = pre[p].files[Target(p)]
      \/ /\ args[p].pattern \in DOMAIN TEMPLATES
         /\ files[Target(p)] = Complete(p)

\* C9: with a valid name and a known pattern, create_agent on a target
\* directory that does not exist (nothing but directories on the way to it)
\* succeeds, creates the directory and every missing ancestor, and returns
\* <path>/<name>.md; on a target directory that exists the directory step
\* raises nothing and creates nothing, and the call succeeds exactly when
\* nothing exists at <path>/<name>.md and ends AlreadyExists otherwise.
C9_DirectoryChain ==
  \A p \in Procs :
    ( /\ pc[p] = "done"
      /\ InCreateAgent(p)
      /\ validate_name(args[p].name)
      /\ args[p].pattern \in DOMAIN TEMPLATES )
    =>
      /\ ( /\ args[p].path \notin pre[p].dirs
           /\ \A q \in Prefixes(args[p].path) : q \notin DOMAIN pre[p].files )
         => /\ outcome[p] = "ok"
            /\ \A k \in 0..Len(args[p].path) : SubSeq(args[p].path, 1, k) \in dirs
            /\ made[p] = {q \in Prefixes(args[p].path) : q \notin pre[p].dirs}
            /\ ret[p] = Target(p)
            /\ Target(p) \in DOMAIN files
      /\ args[p].path \in pre[p].dirs
         => /\ outcome[p] \in {"ok", "AlreadyExists"}
            /\ made[p] = {}
            /\ dirs = pre[p].dirs
            /\ outcome[p] = "ok" <=>
                 (Target(p) \notin DOMAIN pre[p].files /\ Target(p) \notin pre[p].dirs)
            /\ outcome[p] = "ok" => ret[p] = Target(p)

\* C9 witness: a call on tmp/agents, neither directory existing before it,
\* has succeeded and both directories exist.
C9_Witness ==
  /\ pc[1] = "done"
  /\ outcome[1] = "ok"
  /\ args[1].path = <<Tmp, Agents>>
  /\ pre[1].dirs = {<<>>}
  /\ made[1] = {<<Tmp>>, <<Tmp, Agents>>}
  /\ ret[1] = <<Tmp, Agents, <<"a", ".", "m", "d">>>>

\* the positions of an invocation inside create_agent, in the order of the
\* source
Position(label) ==
  CASE label = "validate" -> 1
    [] label = "lookup" -> 2
    [] label = "mkdir" -> 3
    [] label = "exists" -> 4
    [] label = "open" -> 5
    [] label = "write" -> 6
    [] OTHER -> 0

\* C10, the results: an invalid name with an unknown pattern is reported as
\* InvalidName; an unknown pattern with an existing target file is reported
\* as UnknownPattern; a call that created its target directory fails with
\* AlreadyExists or not at all.
C10_Results ==
  \A p \in Procs :
    (pc[p] = "done" /\ InCreateAgent(p)) =>
      /\ (~validate_name(args[p].name) /\ args[p].pattern \notin DOMAIN TEMPLATES)
           => outcome[p] = "InvalidName"
      /\ ( /\ validate_name(args[p].name)
           /\ args[p].pattern \notin DOMAIN TEMPLATES
           /\ Target(p) \in DOMAIN pre[p].files )
           => outcome[p] = "UnknownPattern"
      /\ (exitCode[p] # 0 /\ args[p].path \in made[p])
           => outcome[p] = "AlreadyExists"

\* C10, the steps: inside create_agent an invocation moves from each check
\* to the next one only, a failing exit taken at the name validation is
\* InvalidName and at the pattern lookup UnknownPattern, nothing touches
\* the filesystem before the directory step, and a failing exit taken after
\* the directory step is AlreadyExists.
C10_Steps ==
  \A p \in Procs :
    (Position(pc[p]) > 0 /\ pc'[p] # pc[p]) =>
      /\ \/ Position(pc'[p]) = Position(pc[p]) + 1
         \/ pc'[p] = "done" /\ exitCode'[p] # 0
         \/ pc[p] = "write" /\ pc'[p] \in {"report", "done"} /\ exitCode'[p] = 0
      /\ (pc[p] = "validate" /\ pc'[p] = "done") => outcome'[p] = "InvalidName"
      /\ (pc[p] = "lookup" /\ pc'[p] = "done") => outcome'[p] = "UnknownPattern"
      /\ Position(pc[p]) < 3 => (dirs' = dirs /\ files' = files)
      /\ (Position(pc[p]) > 3 /\ pc'[p] = "done" /\ exitCode'[p] # 0)
           => outcome'[p] = "AlreadyExists"

\* C10: create_agent applies its checks in the order name validation,
\* pattern lookup, directory creation, file-existence check, write, and
\* stops at the first failure.
C10_CheckOrder == [](C10_Results) /\ [][C10_Steps]_vars

\* C10 witness: a call with a valid name, an unknown pattern and a target
\* file that exists has ended UnknownPattern.
C10_Witness ==
  /\ pc[1] = "done"
  /\ validate_name(args[1].name)
  /\ args[1].pattern = "bogus"
  /\ Target(1) \in DOMAIN files
  /\ outcome[1] = "UnknownPattern"
  /\ args[1].entry = "create_agent"

====
